---- MODULE Spec2Model ----
(***************************************************************************)
(* Model of the PlantCV helpers                                            *)
(*   plantcv/plantcv/_helpers.py        _object_composition,               *)
(*                                      _iterate_analysis                  *)
(*   plantcv/plantcv/filters/filter_objs.py      filter_objs               *)
(*   plantcv/plantcv/transform/detect_color_card.py  detect_color_card     *)
(*                                                                         *)
(* Every operation is a synchronous function: one action per operation,    *)
(* taking the process from "idle" to "done" (it returned) or "error" (it   *)
(* raised).  Arrays are functions from pixel index to value, lists are     *)
(* sequences (1-based here, 0-based in the source).                        *)
(***************************************************************************)
EXTENDS Integers, Sequences, FiniteSets, TLC

VARIABLES
    \* ---- _object_composition
    oc_pc,          \* "idle" | "done"
    contours,       \* the contour tuple: a sequence of point sequences
    hierarchy,      \* hierarchy[0]: per contour <<next, previous, first_child, parent>>
    ids,            \* the indices np.where(stack == 1)[0] selects, ascending
    group,          \* the returned array of points
    \* ---- _iterate_analysis
    it_pc,          \* "idle" | "done"
    img_in,         \* the caller's img
    labeled_mask,   \* the caller's labeled_mask array, as it is after the call
    mask_arg,       \* the labeled_mask array as it was passed in
    n_labels,
    mask_copy,      \* the local mask_copy after lines 40-42
    calls,          \* the calls made to `function`, in order
    img_out,        \* the returned img
    \* ---- filter_objs
    rf_pc,          \* "idle" | "done" | "error"
    rf_err,         \* what was raised
    bin_img,
    cut_side,
    thresh,
    regprop_type,   \* type(getattr(obj, regprop)) for the chosen regprop
    regprop_value,  \* getattr(obj, regprop) per region label
    device,         \* params.device
    labeled_img,    \* label(bin_img), or None before labeling
    filtered_mask,  \* the returned mask (uint8), or None
    mask_sum,       \* the same accumulation without the uint8 width
    \* ---- detect_color_card
    cc_pc,          \* "idle" | "done" | "error"
    cc_err,
    cv_contours,    \* what cv2.findContours returned: <<area, width, height>> each
    chip_mask,      \* the returned labeled mask, or None
    observations    \* outputs.add_observation calls, in order

oc_vars == <<oc_pc, contours, hierarchy, ids, group>>
it_vars == <<it_pc, img_in, labeled_mask, mask_arg, n_labels, mask_copy, calls, img_out>>
rf_vars == <<rf_pc, rf_err, bin_img, cut_side, thresh, regprop_type, regprop_value,
             device, labeled_img, filtered_mask, mask_sum>>
cc_vars == <<cc_pc, cc_err, cv_contours, chip_mask, observations>>
vars == <<oc_vars, it_vars, rf_vars, cc_vars>>

\* Python's None where an array is expected, and where an exception is
None == <<>>
NoError == <<"none", "">>

\* ---- bounds of the model
MaxContours == 3
NPixels == 3
MaxLabels == 2
ImgWidth == 4
MaxCardContours == 3

RECURSIVE Flatten(_)
Flatten(ss) == IF ss = <<>> THEN <<>> ELSE Head(ss) \o Flatten(Tail(ss))

OcInit ==
    /\ oc_pc = "idle"
    /\ contours = <<>>
    /\ hierarchy = <<>>
    /\ ids = <<>>
    /\ group = <<>>

ItInit ==
    /\ it_pc = "idle"
    /\ img_in = <<>>
    /\ labeled_mask = <<>>
    /\ mask_arg = <<>>
    /\ n_labels = 0
    /\ mask_copy = <<>>
    /\ calls = <<>>
    /\ img_out = <<>>

RfInit ==
    /\ rf_pc = "idle"
    /\ rf_err = NoError
    /\ bin_img = <<>>
    /\ cut_side = "upper"
    /\ thresh = 0
    /\ regprop_type = ""
    /\ regprop_value = <<>>
    /\ device = 0
    /\ labeled_img = None
    /\ filtered_mask = None
    /\ mask_sum = <<>>

CcInit ==
    /\ cc_pc = "idle"
    /\ cc_err = NoError
    /\ cv_contours = <<>>
    /\ chip_mask = None
    /\ observations = <<>>

Init == OcInit /\ ItInit /\ RfInit /\ CcInit

(***************************************************************************)
(* _object_composition(contours, hierarchy)                                *)
(***************************************************************************)
\* Points are opaque; two contours of different lengths show ordering.
ContourPool == {<<1, 2>>, <<3>>}
\* Values of the first_child entry: none, contour 1 (contour 0 is never a child)
ChildIndex == {-1, 1}
\* Values of the parent entry: none, contour 0, contour 1
ParentIndex == {-1, 0, 1}
\* next and previous are not read
HierPool == {<<-1, -1, ch, pa>> : ch \in ChildIndex, pa \in ParentIndex}

IsHole_ParentZero(h) == h[3] = -1 /\ h[4] > 0
\* line 67: hierarchy[0][c][2] == -1 and hierarchy[0][c][3] > -1
IsHole(h) == h[3] = -1 /\ h[4] > -1

\* lines 64-70: stack[c] is 0 for a hole, 1 otherwise
Stack(hier) == [c \in 1..Len(hier) |-> IF IsHole(hier[c]) THEN 0 ELSE 1]

\* line 72: np.where(stack == 1)[0] lists the indices in ascending order
RECURSIVE WhereOne(_, _)
WhereOne(stack, c) ==
    IF c > Len(stack) THEN <<>>
    ELSE (IF stack[c] = 1 THEN <<c>> ELSE <<>>) \o WhereOne(stack, c + 1)

VStack_Reversed(cnts, idx) ==
    Flatten([k \in 1..Len(idx) |-> cnts[idx[Len(idx) + 1 - k]]])
\* lines 75-76: np.vstack([contours[i] for i in ids])
VStack(cnts, idx) == Flatten([k \in 1..Len(idx) |-> cnts[idx[k]]])

object_composition(cnts, hier) ==
    /\ oc_pc = "idle"
    /\ contours' = cnts
    /\ hierarchy' = hier
    /\ LET found == WhereOne(Stack(hier), 1)
       IN /\ ids' = found
          \* lines 73-76: group stays the empty array unless len(ids) > 0
          /\ group' = IF Len(found) > 0 THEN VStack(cnts, found) ELSE <<>>
    /\ oc_pc' = "done"
    /\ UNCHANGED <<it_vars, rf_vars, cc_vars>>

NextCompose ==
    \E n \in 0..MaxContours :
        \E cnts \in [1..n -> ContourPool], hier \in [1..n -> HierPool] :
            object_composition(cnts, hier)

SpecCompose == Init /\ [][NextCompose]_vars

\* The source's classification, stated on its own: has a parent and no child
PureHole(c) == hierarchy[c][3] = -1 /\ hierarchy[c][4] >= 0
Kept(c) == ~PureHole(c)
InIds(c) == \E k \in 1..Len(ids) : ids[k] = c

RECURSIVE KeptLenBefore(_)
\* Number of points of the kept contours of index < c
KeptLenBefore(c) ==
    IF c <= 1 THEN 0
    ELSE KeptLenBefore(c - 1) + (IF Kept(c - 1) THEN Len(contours[c - 1]) ELSE 0)

\* C1: a boundary is left out of the combined output exactly when it has no
\* child and has a parent; every other boundary is selected.
C1_HoleIffParentNoChild ==
    oc_pc = "done" =>
        \A c \in 1..Len(contours) :
            /\ (~InIds(c)) <=> (hierarchy[c][3] = -1 /\ hierarchy[c][4] > -1)
            /\ Kept(c) =>
                 \A j \in 1..Len(contours[c]) :
                     /\ KeptLenBefore(c) + j <= Len(group)
                     /\ group[KeptLenBefore(c) + j] = contours[c][j]

\* a top-level contour, a contour with a child and a parent, and a hole together
C1_Witness ==
    /\ oc_pc = "done"
    /\ Len(contours) = 3
    /\ \E a, b, c \in 1..3 :
        /\ hierarchy[a][4] = -1 /\ InIds(a)
        /\ hierarchy[b][3] > -1 /\ hierarchy[b][4] > -1 /\ InIds(b)
        /\ hierarchy[c][3] = -1 /\ hierarchy[c][4] > -1 /\ ~InIds(c)

\* C2: the output is the kept boundaries' points, concatenated in ascending
\* index order, each boundary's order preserved; all boundaries when there
\* is no hole; the empty collection, and a normal return, when none is kept.
C2_ConcatInOrder ==
    oc_pc = "done" =>
        /\ Len(group) = KeptLenBefore(Len(contours) + 1)
        /\ \A c \in 1..Len(contours) :
             Kept(c) =>
                 \A j \in 1..Len(contours[c]) :
                     group[KeptLenBefore(c) + j] = contours[c][j]
        /\ (\A c \in 1..Len(contours) : Kept(c)) => group = Flatten(contours)
        /\ (\A c \in 1..Len(contours) : ~Kept(c)) => group = <<>>

C2_Witness ==
    /\ oc_pc = "done"
    /\ Len(contours) = 3
    /\ Kept(1) /\ ~Kept(2) /\ Kept(3)
    /\ contours[1] = <<3>> /\ contours[3] = <<1, 2>>
    /\ group = <<3, 1, 2>>

(***************************************************************************)
(* _iterate_analysis(img, labeled_mask, n_labels, label, function)         *)
(***************************************************************************)
Pixels == 1..NPixels
\* Pixel values that occur: background, labels 1 and 2, and 255
MaskValues == {0, 1, 2, 255}

\* np.unique(mask): the set of distinct values
Unique(mask) == {mask[p] : p \in Pixels}
\* np.max(mask)
Max(S) == CHOOSE m \in S : \A x \in S : x <= m

\* np.where(mask == v, a, b)
Where(mask, v, a, b) == [p \in Pixels |-> IF mask[p] = v THEN a ELSE b]

\* lines 40-42: the copy, remapped 255 -> 1 when it has two distinct values
\* and its maximum is 255
Normalize(mask) ==
    IF Cardinality(Unique(mask)) = 2 /\ Max(Unique(mask)) = 255
    THEN Where(mask, 255, 1, 0)
    ELSE mask

\* The analysis function is the caller's: an image is modelled as the
\* sequence of submasks drawn onto it, so that every call leaves a mark.
function(img, mask) == Append(img, mask)

\* line 44: submask = np.where(mask_copy == i, 255, 0).astype(np.uint8)
Submask(mcopy, i) == Where(mcopy, i, 255, 0)

LastLabel_Exclusive(n) == n - 1
\* line 43: range(1, n_labels + 1) ends at n_labels
LastLabel(n) == n

RECURSIVE Iterate(_, _, _, _, _)
\* lines 43-45: the loop from label i on; returns <<img, calls>>
Iterate(img, mcopy, i, n, log) ==
    IF i > LastLabel(n) THEN <<img, log>>
    ELSE LET submask == Submask(mcopy, i)
             ret == function(img, submask)
         IN Iterate(ret, mcopy, i + 1, n, 
                    Append(log, [id |-> i, img |-> img, mask |-> submask, ret |-> ret]))

iterate_analysis(img, mask, n) ==
    /\ it_pc = "idle"
    /\ img_in' = img
    /\ mask_arg' = mask
    \* line 40 works on a copy: the caller's array is not written
    /\ labeled_mask' = mask
    /\ n_labels' = n
    /\ mask_copy' = Normalize(mask)
    /\ LET r == Iterate(img, Normalize(mask), 1, n, <<>>)
       IN /\ img_out' = r[1]
          /\ calls' = r[2]
    /\ it_pc' = "done"
    /\ UNCHANGED <<oc_vars, rf_vars, cc_vars>>

Blank == [p \in Pixels |-> 0]

NextIterate ==
    \E img \in {<<>>, <<Blank>>}, mask \in [Pixels -> MaskValues], n \in 0..MaxLabels :
        iterate_analysis(img, mask, n)

SpecIterate == Init /\ [][NextIterate]_vars

\* C3: the analysis function is called exactly n_labels times, for IDs
\* 1..n_labels in ascending order; call i gets the submask that is 255 exactly
\* where the normalized mask equals i, and the image call i-1 returned (the
\* caller's image for i = 1); the last call's value is the result, and with
\* n_labels = 0 the caller's image is returned without a call.
C3_OneCallPerLabel ==
    it_pc = "done" =>
        /\ Len(calls) = n_labels
        /\ \A i \in 1..Len(calls) :
            /\ calls[i].id = i
            /\ \A p \in Pixels :
                /\ calls[i].mask[p] \in {0, 255}
                /\ calls[i].mask[p] = 255 <=> mask_copy[p] = i
            /\ calls[i].img = (IF i = 1 THEN img_in ELSE calls[i - 1].ret)
        /\ img_out = (IF n_labels = 0 THEN img_in ELSE calls[n_labels].ret)

\* two labels present, two calls, the second one fed the first one's result
C3_Witness ==
    /\ it_pc = "done"
    /\ n_labels = 2
    /\ Unique(mask_arg) = {0, 1, 2}
    /\ Len(calls) = 2
    /\ calls[2].img = calls[1].ret
    /\ calls[2].img # img_in

\* C4: for a mask holding only the values 0 and 255, the call for ID 1 gets
\* the submask that is 255 exactly on the pixels originally valued 255.
C4_BinaryMaskIsLabelOne ==
    (it_pc = "done" /\ n_labels >= 1 /\ Unique(mask_arg) \subseteq {0, 255}) =>
        \A p \in Pixels : calls[1].mask[p] = 255 <=> mask_arg[p] = 255

\* C10: the 255 -> 1 remapping happens exactly when the distinct values are
\* {0, 255}; otherwise the submask for ID i is the pixels whose original
\* value is i; the caller's array is never modified.
C10_RemapIffZeroAnd255 ==
    it_pc = "done" =>
        /\ labeled_mask = mask_arg
        /\ Unique(mask_arg) = {0, 255} =>
             mask_copy = [p \in Pixels |-> IF mask_arg[p] = 255 THEN 1 ELSE 0]
        /\ Unique(mask_arg) # {0, 255} =>
             /\ mask_copy = mask_arg
             /\ \A i \in 1..Len(calls) : \A p \in Pixels :
                    calls[i].mask[p] = 255 <=> mask_arg[p] = i

(***************************************************************************)
(* filter_objs(bin_img, cut_side, thresh, regprop)                         *)
(***************************************************************************)
\* A one-row image: connected regions are the runs of foreground pixels.
Columns == 1..ImgWidth
Sides == {"upper", "lower", "middle"}
Thresholds == {1, 2}
PropValues == {1, 2, 3}
\* what type(getattr(obj, regprop)) can be: scalar properties, and array ones
PropTypes == {"np.int64", "np.float64", "np.ndarray"}

\* plantcv.fatal_error(msg): raises, ending the operation
fatal_error(msg) == <<"fatal_error", msg>>
\* obj_measures[0] on an empty list
IndexError == <<"IndexError", "list index out of range">>

\* line 33: skimage.measure.label: 0 for background, the regions numbered
\* from 1 in scan order
Label(img) ==
    [p \in Columns |->
        IF img[p] = 0 THEN 0
        ELSE Cardinality({q \in 1..p : img[q] # 0 /\ (q = 1 \/ img[q - 1] = 0)})]

NumRegions(img) ==
    Cardinality({q \in Columns : img[q] # 0 /\ (q = 1 \/ img[q - 1] = 0)})

\* line 35: regionprops(labeled_img): one record per label, ascending
RegionProps(img, pvals) == [k \in 1..NumRegions(img) |-> [label |-> k, value |-> pvals[k]]]

ValidCutSide_Any(side) == TRUE
\* line 29: cut_side not in ("upper", "lower") is rejected
ValidCutSide(side) == side \in {"upper", "lower"}

\* lines 37-38: correct_types = [np.int64, np.float64, int, float]
CorrectType(t) == t \in {"np.int64", "np.float64", "int", "float"}

Passes_Inclusive(side, v, th) ==
    CASE side = "upper" -> v >= th
      [] side = "lower" -> v <= th
      [] OTHER -> FALSE
\* lines 44-55: value > thresh under "upper", value < thresh under "lower"
Passes(side, v, th) ==
    CASE side = "upper" -> v > th
      [] side = "lower" -> v < th
      [] OTHER -> FALSE

RegionMask_FromLabelUp(labeled, lab) == [p \in Columns |-> IF labeled[p] >= lab THEN 255 ELSE 0]
\* lines 49, 55: np.where(labeled_img == obj.label, 255, 0).astype(np.uint8)
RegionMask(labeled, lab) == [p \in Columns |-> IF labeled[p] = lab THEN 255 ELSE 0]

RECURSIVE Accumulate(_, _, _, _, _, _, _)
\* lines 45-55: filtered_mask += ... for every passing object from k on;
\* w is the width of the addition (256 for uint8, 0 for unbounded integers)
Accumulate(mask, labeled, objs, k, side, th, w) ==
    IF k > Len(objs) THEN mask
    ELSE LET add == IF Passes(side, objs[k].value, th)
                    THEN RegionMask(labeled, objs[k].label)
                    ELSE [p \in Columns |-> 0]
             sum == [p \in Columns |->
                        IF w = 0 THEN mask[p] + add[p] ELSE (mask[p] + add[p]) % w]
         IN Accumulate(sum, labeled, objs, k + 1, side, th, w)

Zeros == [p \in Columns |-> 0]

filter_objs(img, side, th, ptype, pvals) ==
    /\ rf_pc = "idle"
    /\ bin_img' = img
    /\ cut_side' = side
    /\ thresh' = th
    /\ regprop_type' = ptype
    /\ regprop_value' = pvals
    \* line 28
    /\ device' = device + 1
    /\ IF ~ValidCutSide(side)
       THEN \* line 30
            /\ rf_pc' = "error"
            /\ rf_err' = fatal_error("Must specify either 'upper' or 'lower' for cut_side")
            /\ labeled_img' = None
            /\ filtered_mask' = None
            /\ mask_sum' = <<>>
       ELSE /\ labeled_img' = Label(img)
            /\ IF NumRegions(img) = 0
               THEN \* line 38: obj_measures[0] of an empty list
                    /\ rf_pc' = "error"
                    /\ rf_err' = IndexError
                    /\ filtered_mask' = None
                    /\ mask_sum' = <<>>
               ELSE IF ~CorrectType(ptype)
               THEN \* line 65
                    /\ rf_pc' = "error"
                    /\ rf_err' = fatal_error("regprop must be of type 'integer' or 'float'")
                    /\ filtered_mask' = None
                    /\ mask_sum' = <<>>
               ELSE /\ rf_pc' = "done"
                    /\ rf_err' = NoError
                    /\ filtered_mask' =
                          Accumulate(Zeros, Label(img), RegionProps(img, pvals), 1, side, th, 256)
                    /\ mask_sum' =
                          Accumulate(Zeros, Label(img), RegionProps(img, pvals), 1, side, th, 0)
    /\ UNCHANGED <<oc_vars, it_vars, cc_vars>>

NextFilter ==
    \E img \in [Columns -> {0, 255}], side \in Sides, th \in Thresholds, ptype \in PropTypes :
        \E pvals \in [1..NumRegions(img) -> PropValues] :
            filter_objs(img, side, th, ptype, pvals)

SpecFilter == Init /\ [][NextFilter]_vars

\* the value of the region pixel p belongs to (p a foreground pixel)
ValueAt(p) == regprop_value[labeled_img[p]]

\* C5: a region whose value equals thresh is left out of the output mask
\* under both cut sides; a region is kept only when its value is strictly
\* greater (upper) or strictly less (lower) than thresh.
C5_ThresholdExcluded ==
    rf_pc = "done" =>
        \A p \in Columns :
            labeled_img[p] # 0 =>
                /\ ValueAt(p) = thresh => filtered_mask[p] = 0
                /\ filtered_mask[p] # 0 =>
                     \/ cut_side = "upper" /\ ValueAt(p) > thresh
                     \/ cut_side = "lower" /\ ValueAt(p) < thresh

\* both sides see a region at the threshold beside a region that is kept
C5_Witness ==
    /\ rf_pc = "done"
    /\ cut_side = "lower"
    /\ \E p, q \in Columns :
        /\ labeled_img[p] # 0 /\ ValueAt(p) = thresh /\ filtered_mask[p] = 0
        /\ labeled_img[q] # 0 /\ ValueAt(q) < thresh /\ filtered_mask[q] = 255

\* C6: a call whose cut_side is neither "upper" nor "lower" fails with the
\* configuration error before any labeling, and yields no mask.
C6_InvalidCutSideFails ==
    (rf_pc # "idle" /\ cut_side \notin {"upper", "lower"}) =>
        /\ rf_pc = "error"
        /\ rf_err = <<"fatal_error", "Must specify either 'upper' or 'lower' for cut_side">>
        /\ labeled_img = None
        /\ filtered_mask = None

C6_Witness ==
    /\ rf_pc = "error"
    /\ cut_side = "middle"
    /\ \E p \in Columns : bin_img[p] = 255
    /\ regprop_type = "np.float64"
    /\ labeled_img = None

\* C7: a returned mask has every pixel in {0, 255}; a pixel is 255 exactly
\* when it lies in a labeled region whose value passes the threshold; the
\* output's foreground is within the input's, and the uint8 accumulation
\* never wraps.
C7_MaskIsKeptRegions ==
    rf_pc = "done" =>
        \A p \in Columns :
            /\ filtered_mask[p] \in {0, 255}
            /\ filtered_mask[p] = 255 <=>
                 /\ labeled_img[p] # 0
                 /\ \/ cut_side = "upper" /\ ValueAt(p) > thresh
                    \/ cut_side = "lower" /\ ValueAt(p) < thresh
            /\ filtered_mask[p] = 255 => bin_img[p] = 255
            /\ mask_sum[p] <= 255
            /\ mask_sum[p] = filtered_mask[p]

\* two regions pass and both are drawn, a background pixel between them
C7_Witness ==
    /\ rf_pc = "done"
    /\ \E p, q, r \in Columns :
        /\ p < q /\ q < r
        /\ filtered_mask[p] = 255 /\ filtered_mask[q] = 0 /\ filtered_mask[r] = 255
        /\ labeled_img[p] = 1 /\ labeled_img[r] = 2

FatalErrors == {<<"fatal_error", "Must specify either 'upper' or 'lower' for cut_side">>,
                <<"fatal_error", "regprop must be of type 'integer' or 'float'">>}

\* C8: a property that is not an integer or floating-point scalar makes the
\* operation fail fatally with no output; every failure of the operation is
\* one of the fatal errors, also for a mask with no region.
C8_FailuresAreFatalErrors ==
    /\ (rf_pc # "idle" /\ regprop_type = "np.ndarray") =>
          (rf_pc = "error" /\ rf_err \in FatalErrors /\ filtered_mask = None)
    /\ rf_pc = "error" => rf_err \in FatalErrors

(***************************************************************************)
(* detect_color_card(rgb_img, label)                                       *)
(***************************************************************************)
\* What cv2 measures of a contour: <<contourArea, minAreaRect width, height>>.
\* A small one, three square chips of different areas, an oblong one, a
\* hollow one.
CardContourPool == {<<900, 30, 30>>, <<2000, 45, 45>>, <<2400, 50, 50>>,
                    <<3000, 55, 55>>, <<2000, 40, 60>>, <<1500, 45, 45>>}

MaxOf(a, b) == IF a >= b THEN a ELSE b
MinOf(a, b) == IF a <= b THEN a ELSE b

\* lines 27-29: area > 1000, sides ratio < 1.27, area / rectangle area > 0.8
is_square(c) ==
    /\ c[1] > 1000
    /\ 100 * MaxOf(c[2], c[3]) < 127 * MinOf(c[2], c[3])
    /\ 10 * c[1] > 8 * (c[2] * c[3])

\* the k-th smallest (1-based) of a non-empty sequence of numbers
KthSmallest(xs, k) ==
    CHOOSE v \in {xs[i] : i \in 1..Len(xs)} :
        /\ Cardinality({i \in 1..Len(xs) : xs[i] < v}) < k
        /\ Cardinality({i \in 1..Len(xs) : xs[i] <= v}) >= k

\* np.median, doubled to stay in the integers: the middle element, or the mean
\* of the two middle ones; np.median([]) is nan, which compares false (0 here,
\* never compared: the list filtered against it is empty too)
Median2(xs) ==
    IF Len(xs) = 0 THEN 0
    ELSE IF Len(xs) % 2 = 1 THEN 2 * KthSmallest(xs, (Len(xs) + 1) \div 2)
    ELSE KthSmallest(xs, Len(xs) \div 2) + KthSmallest(xs, Len(xs) \div 2 + 1)

Column(cs, k) == [i \in 1..Len(cs) |-> cs[i][k]]

\* lines 71-72: 0.8 < contourArea / target_square_area < 1.2
NearMedian(c, target2) == 8 * target2 < 20 * c[1] /\ 20 * c[1] < 12 * target2

\* lines 67-72: the two list comprehensions: the square contours, then those
\* within 20% of their median area
FilteredContours(cs) ==
    LET squares == SelectSeq(cs, is_square)
        target2 == Median2(Column(squares, 1))
        Near(c) == NearMedian(c, target2)
    IN SelectSeq(squares, Near)

NoCardFound_Never(fc) == FALSE
\* line 75: len(filtered_contours) == 0
NoCardFound(fc) == Len(fc) = 0

NRows == 6
NCols == 4
\* lines 103, 119-120: chip i (row-major) is drawn with the value (i + 1) * 10
ChipLabels == [i \in 1..(NRows * NCols) |-> i * 10]

\* lines 126-134: the three observations, the values doubled medians
Observations(fc) ==
    << <<"median_color_chip_size", Median2(Column(fc, 1))>>,
       <<"median_color_chip_width", Median2(Column(fc, 2))>>,
       <<"median_color_chip_height", Median2(Column(fc, 3))>> >>

detect_color_card(cs) ==
    /\ cc_pc = "idle"
    /\ cv_contours' = cs
    /\ LET fc == FilteredContours(cs)
       IN IF NoCardFound(fc)
          THEN \* line 76
               /\ cc_pc' = "error"
               /\ cc_err' = fatal_error("No color card found")
               /\ chip_mask' = None
               /\ observations' = observations
          ELSE /\ cc_pc' = "done"
               /\ cc_err' = NoError
               /\ chip_mask' = ChipLabels
               /\ observations' = observations \o Observations(fc)
    /\ UNCHANGED <<oc_vars, it_vars, rf_vars>>

NextCard ==
    \E n \in 0..MaxCardContours :
        \E cs \in [1..n -> CardContourPool] : detect_color_card(cs)

SpecCard == Init /\ [][NextCard]_vars

\* a contour of the card's shape: large enough, nearly square, filled
CardShaped(c) ==
    /\ c[1] > 1000
    /\ 100 * c[2] < 127 * c[3] /\ 100 * c[3] < 127 * c[2]
    /\ 10 * c[1] > 8 * c[2] * c[3]

SquareAreas == Column(SelectSeq(cv_contours, CardShaped), 1)

\* a card-shaped contour whose area is within 20% of the median area of the
\* card-shaped contours
Survives(c) ==
    /\ CardShaped(c)
    /\ 8 * Median2(SquareAreas) < 20 * c[1]
    /\ 20 * c[1] < 12 * Median2(SquareAreas)

\* C9: when no contour survives the square-shape and median-area filters,
\* the call raises the not-found fatal error, returns no mask and records no
\* observation.
C9_NoCardIsFatal ==
    (cc_pc # "idle" /\ \A i \in 1..Len(cv_contours) : ~Survives(cv_contours[i])) =>
        /\ cc_pc = "error"
        /\ cc_err = <<"fatal_error", "No color card found">>
        /\ chip_mask = None
        /\ observations = <<>>

\* two squares are found and the median filter leaves none of them
C9_Witness ==
    /\ cc_pc = "error"
    /\ Len(cv_contours) >= 2
    /\ \E i, j \in 1..Len(cv_contours) :
        /\ i # j
        /\ CardShaped(cv_contours[i]) /\ CardShaped(cv_contours[j])
    /\ observations = <<>>

\* no contour at all (an all-black image)
C9_WitnessNoContours ==
    /\ cc_pc = "error"
    /\ cv_contours = <<>>

====
